---- MODULE Spec2Model ----
(***************************************************************************)
(* The multi-agent pipelines of the knowledge graph application:           *)
(*   ingestion  Extractor -> KnowledgeLinker -> GraphWriter                *)
(*   query      QueryAnalyzer -> HybridRetriever -> Synthesizer            *)
(* together with the graph store, the vector store, the audit log and the  *)
(* tag hierarchy they share.                                               *)
(***************************************************************************)
EXTENDS Integers, Sequences, FiniteSets, TLC

VARIABLES
    page,             \* app.py: the page whose handler runs
    pc,               \* position of the running handler of app.py
    ops,              \* number of user operations started so far
    tags_config,      \* app.py: the in-memory tag hierarchy
    tags_file,        \* tags.yaml: the persisted tag hierarchy
    nodes,            \* graph store: node_id -> KnowledgeNode properties
    rels,             \* graph store: the RELATES_TO edges, in creation order
    vectors,          \* vector store: the ids that hold an embedding
    log,              \* llm_api_logs, oldest first
    next_id,          \* the next fresh uuid
    new_text,         \* app.py: new_text / prompt of the running handler
    extractor_output, \* app.py: extractor_output
    new_node_id,      \* app.py: new_node_id
    linker_output,    \* app.py: linker_output
    analyzer_output,  \* app.py: analyzer_output
    retrieved_nodes,  \* app.py: retrieved_nodes
    user_question,    \* app.py: prompt, the question asked
    response,         \* app.py: response
    calls,            \* the external calls of the running handler, in order
    llm_response,     \* agents: response, the model's last answer to the running handler
    m_tags,           \* tag merge on its own: the hierarchy object
    m_prev,           \* ... its value before the last call
    m_path,           \* ... the tag_path of the last call
    m_ret,            \* ... what the last call returned
    m_ret_prev,       \* ... what the call before it returned
    m_n,              \* ... the number of calls made so far
    m_rep             \* ... whether the last call repeated the tag_path before it

vars == <<page, pc, ops, tags_config, tags_file, nodes, rels, vectors, log, next_id, new_text, extractor_output, new_node_id, linker_output, analyzer_output, retrieved_nodes, user_question, response, calls, llm_response, m_tags, m_prev, m_path, m_ret, m_ret_prev, m_n, m_rep>>

appVars == <<page, pc, ops, tags_config, tags_file, nodes, rels, vectors, log, next_id, new_text, extractor_output, new_node_id, linker_output, analyzer_output, retrieved_nodes, user_question, response, calls, llm_response>>

mergeVars == <<m_tags, m_prev, m_path, m_ret, m_ret_prev, m_n, m_rep>>

(***************************************************************************)
(* Bounds of the model.                                                    *)
(***************************************************************************)
\* user operations (submissions, questions, deletions) in one behaviour
MaxOps == 3
\* relationships the linker's model proposes in one response
MaxLinks == 2
\* segments of a tag_path when the merge is checked on its own
MaxDepth == 2
\* applications of the merge to one hierarchy object
MaxMerges == 2

(***************************************************************************)
(* The tag hierarchy: a nested mapping from category name to either a      *)
(* nested mapping or a list of leaf tags.  A container is named by its     *)
(* path from the root; dicts holds the paths of the mappings (the root     *)
(* <<>> among them) and lists maps the path of each list to its items.     *)
(***************************************************************************)
IsDict(h, c) == c \in h.dicts

IsList(h, c) == c \in DOMAIN h.lists

Containers(h) == h.dicts \cup DOMAIN h.lists

\* the keys of the mapping at c
Keys(h, c) == {p[Len(p)] : p \in {q \in Containers(h) : Len(q) = Len(c) + 1 /\ SubSeq(q, 1, Len(c)) = c}}

\* the items of the list at c
Items(h, c) == {h.lists[c][i] : i \in 1..Len(h.lists[c])}

\* Python's `key in temp_dict`, for a dict and for a list
Contains(h, c, key) == IF IsDict(h, c) THEN key \in Keys(h, c) ELSE key \in Items(h, c)

\* temp_dict[key] = {}
SetEmptyDict(h, c, key) == [h EXCEPT !.dicts = @ \cup {Append(c, key)}]

\* temp_dict.append(key)
ListAppend(h, c, key) == [h EXCEPT !.lists = [@ EXCEPT ![c] = Append(@, key)]]

\* what _update_tags_if_needed hands back: the hierarchy object as the call
\* left it, and "current_tags", "None" or "raise"
MergeResult(h, ret) == [tags |-> h, ret |-> ret]

RECURSIVE walk_tag_path(_, _, _, _, _)
\* the loop of _update_tags_if_needed from index i on; temp names the
\* container temp_dict refers to
walk_tag_path(tag_path, i, h, temp, path_changed) ==
    IF i > Len(tag_path)
    THEN MergeResult(h, IF path_changed THEN "current_tags" ELSE "None")
    ELSE LET key == tag_path[i] IN
         IF i = Len(tag_path)
         THEN IF ~Contains(h, temp, key)
              THEN IF IsList(h, temp)
                   THEN walk_tag_path(tag_path, i + 1, ListAppend(h, temp, key), temp, TRUE)
                   ELSE MergeResult(h, "raise")  \* a dict has no append
              ELSE walk_tag_path(tag_path, i + 1, h, temp, path_changed)
         ELSE IF ~IsDict(h, temp)
              THEN MergeResult(h, "raise")  \* a list is indexed by integers
              ELSE IF ~Contains(h, temp, key)
                   THEN walk_tag_path(tag_path, i + 1, SetEmptyDict(h, temp, key), Append(temp, key), TRUE)
                   ELSE walk_tag_path(tag_path, i + 1, h, Append(temp, key), path_changed)

\* a merge that appends the leaf without looking for it first
update_tags_always_append(tag_path, current_tags) ==
    LET parent == SubSeq(tag_path, 1, Len(tag_path) - 1)
        r == walk_tag_path(tag_path, 1, current_tags, <<>>, FALSE)
    IN IF r.ret = "None" /\ Len(tag_path) > 0 /\ IsList(current_tags, parent)
       THEN MergeResult(ListAppend(current_tags, parent, tag_path[Len(tag_path)]), "current_tags")
       ELSE r

\* ExtractorAgent._update_tags_if_needed
update_tags_if_needed(tag_path, current_tags) == walk_tag_path(tag_path, 1, current_tags, <<>>, FALSE)

\* tag_path can be walked from the root of h: every segment but the last is
\* a key of a mapping, the last is an item of a list or a key of a mapping
Traversable(h, tag_path) ==
    /\ Len(tag_path) > 0
    /\ \A i \in 1..(Len(tag_path) - 1) : SubSeq(tag_path, 1, i) \in Containers(h) /\ IsDict(h, SubSeq(tag_path, 1, i - 1))
    /\ LET parent == SubSeq(tag_path, 1, Len(tag_path) - 1) IN
          /\ parent \in Containers(h)
          /\ Contains(h, parent, tag_path[Len(tag_path)])

\* no list of h holds an item twice
NoDuplicates(h) == \A c \in DOMAIN h.lists : \A i, j \in 1..Len(h.lists[c]) : h.lists[c][i] = h.lists[c][j] => i = j

(***************************************************************************)
(* Values.                                                                 *)
(***************************************************************************)
\* the hierarchy of the ingestion scenario: {Biology: [Ecology]}
BiologyTags == [dicts |-> {<<>>}, lists |-> (<<"Biology">> :> <<"Ecology">>)]

\* {}
EmptyTags == [dicts |-> {<<>>}, lists |-> <<>>]

\* {Biology: [Ecology], Physics: {}}
TwoRootTags == [dicts |-> {<<>>, <<"Physics">>}, lists |-> (<<"Biology">> :> <<"Ecology">>)]

\* {Biology: {Ecology: [Physics]}}
NestedTags == [dicts |-> {<<>>, <<"Biology">>}, lists |-> (<<"Biology", "Ecology">> :> <<"Physics">>)]

\* the tags.yaml files the merge is applied to when checked on its own
MergeHierarchies == {EmptyTags, BiologyTags, TwoRootTags, NestedTags}

Segments == {"Biology", "Ecology", "Physics"}

RECURSIVE PathsOfLength(_)
PathsOfLength(n) == IF n = 0 THEN {<<>>} ELSE {Append(p, s) : p \in PathsOfLength(n - 1), s \in Segments}

\* the tag paths the merge is applied to when checked on its own
MergePaths == UNION {PathsOfLength(n) : n \in 1..MaxDepth}

\* the tag paths the extractor's model proposes during ingestion: a path
\* already in the hierarchy, a new leaf under an existing category, a path
\* through a category that does not exist yet, and two single segments
IngestTagPaths == {<<"Biology", "Ecology">>, <<"Biology", "Photosynthesis">>, <<"Physics", "Optics">>, <<"Physics">>, <<"Biology">>}

Texts == {"Photosynthesis converts light into chemical energy"}

Questions == {"What did I learn about energy conversion?"}

Summaries == {"Photosynthesis turns light into energy", ""}

NodeTypes == {"Concept"}

\* no uuid yet
NoId == 0

\* Python's None where a string, or a list, is expected
PyNone == "<None>"

PyNoneList == <<"<None>">>

NoOutput == [none |-> TRUE]

NoInformation == "I couldn't find any relevant information in your knowledge graph to answer that question."

ErrorMessage == "Sorry, an error occurred while processing your request"

Min(a, b) == IF a < b THEN a ELSE b

\* the orders in which a store may hand back the members of S
Orderings(S) == {s \in [1..Cardinality(S) -> S] : \A i, j \in 1..Cardinality(S) : s[i] = s[j] => i = j}

RECURSIVE SeqsUpTo(_, _)
\* the sequences over S of length at most n
SeqsUpTo(S, n) == IF n = 0 THEN {<<>>} ELSE SeqsUpTo(S, n - 1) \cup {Append(q, x) : q \in {r \in SeqsUpTo(S, n - 1) : Len(r) = n - 1}, x \in S}

(***************************************************************************)
(* What the language model answers: the call raises, or the text is not    *)
(* JSON, or it parses to data.                                             *)
(***************************************************************************)
\* the model has not been asked
NoResponse == [kind |-> "none"]

Raises == [kind |-> "raise"]

Malformed == [kind |-> "malformed"]

Json(d) == [kind |-> "json", data |-> d]

\* the answers to the extractor's prompt; a JSON object may lack a key
ExtractorResponses ==
    {Raises, Malformed}
    \cup {Json([content_summary |-> s, node_type |-> t, tag_path |-> p]) : s \in Summaries, t \in NodeTypes, p \in IngestTagPaths}
    \cup {Json([content_summary |-> "Photosynthesis turns light into energy", node_type |-> "Concept"])}
    \cup {Json([node_type |-> "Concept", tag_path |-> <<"Biology", "Ecology">>])}
    \cup {Json([content_summary |-> "Photosynthesis turns light into energy", tag_path |-> <<"Biology", "Ecology">>])}

\* the answers to the linker's prompt: a list of relationship records, whose
\* to_node_id is whatever id the model writes
LinkerResponses(ids) ==
    {Raises, Malformed}
    \cup {Json(l) : l \in SeqsUpTo({[to_node_id |-> i, type |-> "explains", description |-> "d"] : i \in ids}, MaxLinks)}

\* the answers to the query analyzer's prompt
AnalyzerResponses ==
    {Raises, Malformed}
    \cup {Json([semantic_query |-> q, graph_tags |-> g]) : q \in {"", "energy conversion processes", PyNone}, g \in {<<>>, <<"Biology", "Ecology">>, <<"Physics">>, PyNoneList}}
    \cup {Json([semantic_query |-> "energy conversion processes"]), Json([graph_tags |-> <<"Biology", "Ecology">>])}

\* the answers to the synthesizer's prompt
SynthesizerResponses == {Raises, [kind |-> "text", data |-> "answer"]}

(***************************************************************************)
(* The audit log (log_db.py).  The response column is left out.            *)
(***************************************************************************)
\* SQLiteLogger.log_api_call
log_api_call(l, agent_name, prompt, status) ==
    Append(l, [agent_name |-> agent_name, prompt |-> prompt, status |-> status, action_type |-> "api_call"])

\* SQLiteLogger.log_manual_action
log_manual_action(l, action_name, details) ==
    Append(l, [agent_name |-> "Manual Action", prompt |-> details, status |-> "success", action_type |-> action_name])

\* one external call of a handler: what was called, with what, whether it
\* returned, and the node ids it handed back
Call(op, arg, ok, ids) == [op |-> op, arg |-> arg, ok |-> ok, ids |-> ids]

(***************************************************************************)
(* The graph store (graph_db.py) and the vector store (vector_db.py).      *)
(***************************************************************************)
\* GraphDBConnector.create_knowledge_node; created_at is left out
create_knowledge_node(g, node_id, content_raw, content_summary, node_type, tags) ==
    (node_id :> [content_raw |-> content_raw, content_summary |-> content_summary, node_type |-> node_type, tags |-> tags]) @@ g

\* a create_relationship that matches both of its ends by to_node_id
create_relationship_to_itself(g, rs, from_node_id, to_node_id, rel_type, description) ==
    IF from_node_id \in DOMAIN g /\ to_node_id \in DOMAIN g
    THEN Append(rs, [source |-> to_node_id, target |-> to_node_id, type |-> rel_type, description |-> description])
    ELSE rs

\* a create_relationship that MERGEs its two ends instead of MATCHing them:
\* the relationship is created whether or not the ends exist
create_relationship_unmatched(g, rs, from_node_id, to_node_id, rel_type, description) ==
    Append(rs, [source |-> from_node_id, target |-> to_node_id, type |-> rel_type, description |-> description])

\* GraphDBConnector.create_relationship: the two MATCH clauses find no row
\* when an end is missing, and then nothing is created
create_relationship(g, rs, from_node_id, to_node_id, rel_type, description) ==
    IF from_node_id \in DOMAIN g /\ to_node_id \in DOMAIN g
    THEN Append(rs, [source |-> from_node_id, target |-> to_node_id, type |-> rel_type, description |-> description])
    ELSE rs

\* GraphDBConnector.delete_node: DETACH DELETE, the nodes left
delete_node(g, node_id) == [n \in DOMAIN g \ {node_id} |-> g[n]]

\* a delete that removes only the relationships that leave the node
detach_outgoing(rs, node_id) == SelectSeq(rs, LAMBDA r : r.source # node_id)

\* GraphDBConnector.delete_node: DETACH DELETE, the relationships left
detach(rs, node_id) == SelectSeq(rs, LAMBDA r : r.source # node_id /\ r.target # node_id)

\* the properties the store hands back for a node
NodeRecord(g, n) == [node_id |-> n, content_raw |-> g[n].content_raw, content_summary |-> g[n].content_summary, node_type |-> g[n].node_type, tags |-> g[n].tags]

\* GraphDBConnector.search_nodes_by_tag: the ids of the nodes found
search_nodes_by_tag(g, tag) == {n \in DOMAIN g : \E i \in 1..Len(g[n].tags) : g[n].tags[i] = tag}

\* GraphDBConnector.get_nodes_by_ids: the lists the store may hand back
get_nodes_by_ids(g, node_ids) ==
    IF node_ids = {} THEN {<<>>}
    ELSE {[i \in 1..Len(o) |-> NodeRecord(g, o[i])] : o \in Orderings(node_ids \cap DOMAIN g)}

\* VectorDBConnector.add_embedding: no embedding is made of an empty text
add_embedding(vecs, node_id, text_to_embed) == IF text_to_embed = "" THEN vecs ELSE vecs \cup {node_id}

\* VectorDBConnector.query_embeddings: the results the store may hand back,
\* the n_results nearest of the stored embeddings, as the set of their ids
query_embeddings(vecs, query_text, n_results) ==
    IF query_text = "" THEN {{}}
    ELSE {c \in SUBSET vecs : Cardinality(c) = Min(n_results, Cardinality(vecs))}

\* a delete whose filter, when it matches no id, deletes every embedding
delete_embedding_unfiltered(vecs, node_id) == IF node_id \in vecs THEN vecs \ {node_id} ELSE {}

\* VectorDBConnector.delete_embedding
delete_embedding(vecs, node_id) == vecs \ {node_id}

\* n_results of the linker's similarity search
LinkerTopK == 5

\* n_results of the retriever's similarity search
RetrieverTopK == 10

(***************************************************************************)
(* The agents.  Each run is given what its environment does during the     *)
(* call (the model's answer llm, the store call that raises fault, the     *)
(* result a store picks) and hands back its result and its effects.        *)
(***************************************************************************)
\* ExtractorAgent.run, the try block: the model call, the parse, the
\* "success" entry and the tag merge; failed tells that an exception left it
Extractor_try(user_text, tags, l, llm) ==
    LET prompt == [user_text |-> user_text, tag_hierarchy |-> tags] IN
    IF llm.kind # "json" THEN [failed |-> TRUE, output |-> NoOutput, ret |-> "None", tags |-> tags, log |-> l]
    ELSE LET l1 == log_api_call(l, "Extractor", prompt, "success") IN
         IF "tag_path" \notin DOMAIN llm.data THEN [failed |-> TRUE, output |-> NoOutput, ret |-> "None", tags |-> tags, log |-> l1]
         ELSE LET m == update_tags_if_needed(llm.data.tag_path, tags) IN
              IF m.ret = "raise" THEN [failed |-> TRUE, output |-> NoOutput, ret |-> "None", tags |-> m.tags, log |-> l1]
              ELSE [failed |-> FALSE, output |-> llm.data, ret |-> m.ret, tags |-> m.tags, log |-> l1]

\* an Extractor.run whose except block logs and returns instead of raising
Extractor_run_swallow(user_text, tags, l, llm) ==
    LET prompt == [user_text |-> user_text, tag_hierarchy |-> tags]
        t == Extractor_try(user_text, tags, l, llm)
    IN [raised |-> FALSE, output |-> t.output, ret |-> t.ret, tags |-> t.tags,
        log |-> IF t.failed THEN log_api_call(t.log, "Extractor", prompt, "error") ELSE t.log,
        calls |-> <<Call("generate_content", prompt, llm.kind # "raise", {})>>]

\* ExtractorAgent.run: the except block logs "error" and raises again
Extractor_run(user_text, tags, l, llm) ==
    LET prompt == [user_text |-> user_text, tag_hierarchy |-> tags]
        t == Extractor_try(user_text, tags, l, llm)
    IN [raised |-> t.failed, output |-> t.output, ret |-> t.ret, tags |-> t.tags,
        log |-> IF t.failed THEN log_api_call(t.log, "Extractor", prompt, "error") ELSE t.log,
        calls |-> <<Call("generate_content", prompt, llm.kind # "raise", {})>>]

\* the linker's similarity search, as a call of the handler
LinkerQuery(summary, ok, ids) == Call("query_embeddings", [query_text |-> summary, n_results |-> LinkerTopK], ok, ids)

\* a KnowledgeLinker.run whose except block logs "error" and raises again
KnowledgeLinker_ask_raise(node_id, summary, l, cands, llm) ==
    LET prompt == [new_node_id |-> node_id, new_node_summary |-> summary, candidate_nodes |-> cands]
        gen == Call("generate_content", prompt, llm.kind # "raise", {})
    IN IF llm.kind # "json"
       THEN [raised |-> TRUE, output |-> <<>>, log |-> log_api_call(l, "KnowledgeLinker", prompt, "error"), calls |-> <<LinkerQuery(summary, TRUE, cands), gen>>]
       ELSE [raised |-> FALSE, output |-> llm.data, log |-> log_api_call(l, "KnowledgeLinker", prompt, "success"), calls |-> <<LinkerQuery(summary, TRUE, cands), gen>>]

\* KnowledgeLinkerAgent.run from the prompt on: the model call in its try
\* block, whose except block logs "error" and returns []
KnowledgeLinker_ask(node_id, summary, l, cands, llm) ==
    LET prompt == [new_node_id |-> node_id, new_node_summary |-> summary, candidate_nodes |-> cands]
        gen == Call("generate_content", prompt, llm.kind # "raise", {})
    IN IF llm.kind # "json"
       THEN [raised |-> FALSE, output |-> <<>>, log |-> log_api_call(l, "KnowledgeLinker", prompt, "error"), calls |-> <<LinkerQuery(summary, TRUE, cands), gen>>]
       ELSE [raised |-> FALSE, output |-> llm.data, log |-> log_api_call(l, "KnowledgeLinker", prompt, "success"), calls |-> <<LinkerQuery(summary, TRUE, cands), gen>>]

\* a KnowledgeLinker.run that asks the model even when nothing was found
KnowledgeLinker_run_always_ask(node_id, summary, l, fault, cands, llm) ==
    IF summary # "" /\ fault = "query_embeddings"
    THEN [raised |-> TRUE, output |-> <<>>, log |-> l, calls |-> <<LinkerQuery(summary, FALSE, {})>>]
    ELSE KnowledgeLinker_ask(node_id, summary, l, cands, llm)

\* KnowledgeLinkerAgent.run; cands is the result the similarity search picked
KnowledgeLinker_run(node_id, summary, l, fault, cands, llm) ==
    IF summary # "" /\ fault = "query_embeddings"
    THEN [raised |-> TRUE, output |-> <<>>, log |-> l, calls |-> <<LinkerQuery(summary, FALSE, {})>>]
    ELSE IF cands = {}
         THEN [raised |-> FALSE, output |-> <<>>, log |-> l, calls |-> <<LinkerQuery(summary, TRUE, {})>>]
         ELSE KnowledgeLinker_ask(node_id, summary, l, cands, llm)

\* the store calls GraphWriter.run may find raising: fault.op at its
\* fault.at-th call
WriterFaults ==
    {[op |-> "none", at |-> 0], [op |-> "create_knowledge_node", at |-> 1], [op |-> "add_embedding", at |-> 1]}
    \cup {[op |-> "create_relationship", at |-> k] : k \in 1..MaxLinks}

RECURSIVE create_relationships(_, _, _, _, _, _, _)
\* the loop of GraphWriter.run over links from index k on
create_relationships(g, rs, node_id, links, k, fault, cs) ==
    IF k > Len(links) THEN [rels |-> rs, calls |-> cs, failed |-> FALSE]
    ELSE LET rel == links[k]
             arg == [from_node_id |-> node_id, to_node_id |-> rel.to_node_id]
         IN IF fault = [op |-> "create_relationship", at |-> k]
            THEN [rels |-> rs, calls |-> Append(cs, Call("create_relationship", arg, FALSE, {})), failed |-> TRUE]
            ELSE create_relationships(g, create_relationship(g, rs, node_id, rel.to_node_id, rel.type, rel.description), node_id, links, k + 1, fault, Append(cs, Call("create_relationship", arg, TRUE, {})))

\* a GraphWriter.run that stores the embedding before it creates the node
GraphWriter_try_embed_first(node_id, extractor_out, links, raw_text, g, vecs, rs, fault) ==
    LET arg == [node_id |-> node_id] IN
    IF "node_type" \notin DOMAIN extractor_out
    THEN [nodes |-> g, vectors |-> vecs, rels |-> rs, calls |-> <<>>, failed |-> TRUE]
    ELSE LET v1 == add_embedding(vecs, node_id, extractor_out.content_summary)
             g1 == create_knowledge_node(g, node_id, raw_text, extractor_out.content_summary, extractor_out.node_type, extractor_out.tag_path)
             c2 == <<Call("add_embedding", arg, TRUE, {}), Call("create_knowledge_node", arg, TRUE, {})>>
             w == create_relationships(g1, rs, node_id, links, 1, fault, c2)
         IN [nodes |-> g1, vectors |-> v1, rels |-> w.rels, calls |-> w.calls, failed |-> w.failed]

\* a GraphWriter.run that goes on to the relationships when the embedding
\* step has raised
GraphWriter_try_continue(node_id, extractor_out, links, raw_text, g, vecs, rs, fault) ==
    LET arg == [node_id |-> node_id]
        Left(g1, v1, r1, cs) == [nodes |-> g1, vectors |-> v1, rels |-> r1, calls |-> cs, failed |-> TRUE]
    IN
    IF "node_type" \notin DOMAIN extractor_out THEN Left(g, vecs, rs, <<>>)
    ELSE IF fault.op = "create_knowledge_node" \/ node_id \in DOMAIN g
    THEN Left(g, vecs, rs, <<Call("create_knowledge_node", arg, FALSE, {})>>)
    ELSE LET g1 == create_knowledge_node(g, node_id, raw_text, extractor_out.content_summary, extractor_out.node_type, extractor_out.tag_path)
             c1 == <<Call("create_knowledge_node", arg, TRUE, {})>>
             bad == fault.op = "add_embedding" /\ extractor_out.content_summary # ""
             v1 == IF bad THEN vecs ELSE add_embedding(vecs, node_id, extractor_out.content_summary)
             c2 == Append(c1, Call("add_embedding", arg, ~bad, {}))
             w == create_relationships(g1, rs, node_id, links, 1, fault, c2)
         IN [nodes |-> g1, vectors |-> v1, rels |-> w.rels, calls |-> w.calls, failed |-> bad \/ w.failed]

\* GraphWriterAgent.run, the try block: the three persistence steps in
\* order; failed tells that an exception left it
GraphWriter_try(node_id, extractor_out, links, raw_text, g, vecs, rs, fault) ==
    LET arg == [node_id |-> node_id]
        Left(g1, v1, r1, cs) == [nodes |-> g1, vectors |-> v1, rels |-> r1, calls |-> cs, failed |-> TRUE]
    IN
    IF "node_type" \notin DOMAIN extractor_out THEN Left(g, vecs, rs, <<>>)
    ELSE IF fault.op = "create_knowledge_node" \/ node_id \in DOMAIN g
    THEN Left(g, vecs, rs, <<Call("create_knowledge_node", arg, FALSE, {})>>)
    ELSE LET g1 == create_knowledge_node(g, node_id, raw_text, extractor_out.content_summary, extractor_out.node_type, extractor_out.tag_path)
             c1 == <<Call("create_knowledge_node", arg, TRUE, {})>>
         IN
         IF fault.op = "add_embedding" /\ extractor_out.content_summary # ""
         THEN Left(g1, vecs, rs, Append(c1, Call("add_embedding", arg, FALSE, {})))
         ELSE LET v1 == add_embedding(vecs, node_id, extractor_out.content_summary)
                  c2 == Append(c1, Call("add_embedding", arg, TRUE, {}))
                  w == create_relationships(g1, rs, node_id, links, 1, fault, c2)
              IN [nodes |-> g1, vectors |-> v1, rels |-> w.rels, calls |-> w.calls, failed |-> w.failed]

\* a GraphWriter.run that undoes what it wrote when a step raises
GraphWriter_run_rollback(node_id, extractor_out, links, raw_text, g, vecs, rs, l, fault) ==
    LET t == GraphWriter_try(node_id, extractor_out, links, raw_text, g, vecs, rs, fault) IN
    IF t.failed
    THEN [nodes |-> g, vectors |-> vecs, rels |-> rs, calls |-> t.calls, log |-> log_manual_action(l, "write_failure", [node_id |-> node_id])]
    ELSE [nodes |-> t.nodes, vectors |-> t.vectors, rels |-> t.rels, calls |-> t.calls, log |-> l]

\* GraphWriterAgent.run: the except block logs the failure and returns
GraphWriter_run(node_id, extractor_out, links, raw_text, g, vecs, rs, l, fault) ==
    LET t == GraphWriter_try(node_id, extractor_out, links, raw_text, g, vecs, rs, fault) IN
    [nodes |-> t.nodes, vectors |-> t.vectors, rels |-> t.rels, calls |-> t.calls,
     log |-> IF t.failed THEN log_manual_action(l, "write_failure", [node_id |-> node_id]) ELSE l]

\* QueryAnalyzerAgent.run
QueryAnalyzer_run(question, l, llm) ==
    LET prompt == [user_question |-> question]
        gen == <<Call("generate_content", prompt, llm.kind # "raise", {})>>
    IN
    IF llm.kind # "json"
    THEN [raised |-> TRUE, output |-> NoOutput, log |-> log_api_call(l, "QueryAnalyzer", prompt, "error"), calls |-> gen]
    ELSE [raised |-> FALSE, output |-> llm.data, log |-> log_api_call(l, "QueryAnalyzer", prompt, "success"), calls |-> gen]

\* a test `is not None` in place of the truth value
TruthyStr_not_none(x) == x # PyNone

\* Python's truth value of a string, and of a list
TruthyStr(x) == x # PyNone /\ x # ""

TruthyList(x) == x # PyNoneList /\ x # <<>>

\* the store calls HybridRetriever.run may find raising
RetrieverFaults == {"none", "query_embeddings", "search_nodes_by_tag", "get_nodes_by_ids"}

\* a retriever that keeps only the ids both searches found
retrieved_ids_both(semantic_query, graph_tags, g, vres) ==
    (IF TruthyStr(semantic_query) THEN vres ELSE {})
    \cap (IF TruthyList(graph_tags) THEN UNION {search_nodes_by_tag(g, graph_tags[i]) : i \in 1..Len(graph_tags)} ELSE {})

\* HybridRetriever.run: retrieved_ids after the two searches; vres is the
\* result the similarity search picked
retrieved_ids(semantic_query, graph_tags, g, vres) ==
    (IF TruthyStr(semantic_query) THEN vres ELSE {})
    \cup (IF TruthyList(graph_tags) THEN UNION {search_nodes_by_tag(g, graph_tags[i]) : i \in 1..Len(graph_tags)} ELSE {})

\* a HybridRetriever.run that hands back the nodes of each search one after
\* the other, without the set
HybridRetriever_run_concat(semantic_query, graph_tags, g, fault, vres, final_nodes) ==
    LET tagged == IF TruthyList(graph_tags) THEN UNION {search_nodes_by_tag(g, graph_tags[i]) : i \in 1..Len(graph_tags)} ELSE {}
        first == IF TruthyStr(semantic_query) THEN vres \cap DOMAIN g ELSE {}
        a == CHOOSE o \in Orderings(first) : TRUE
        b == CHOOSE o \in Orderings(tagged) : TRUE
    IN [raised |-> FALSE, output |-> [i \in 1..(Len(a) + Len(b)) |-> NodeRecord(g, IF i <= Len(a) THEN a[i] ELSE b[i - Len(a)])], calls |-> <<>>]

\* a HybridRetriever.run that catches a store call's exception and hands
\* back the empty list
HybridRetriever_run_swallow(semantic_query, graph_tags, g, fault, vres, final_nodes) ==
    LET vcall(ok, ids) == Call("query_embeddings", [query_text |-> semantic_query, n_results |-> RetrieverTopK], ok, ids)
        c1 == IF TruthyStr(semantic_query) THEN <<vcall(fault # "query_embeddings", IF fault = "query_embeddings" THEN {} ELSE vres)>> ELSE <<>>
        tcalls == IF TruthyList(graph_tags)
                  THEN [i \in 1..Len(graph_tags) |-> Call("search_nodes_by_tag", [tag |-> graph_tags[i]], TRUE, search_nodes_by_tag(g, graph_tags[i]))]
                  ELSE <<>>
        ids == retrieved_ids(semantic_query, graph_tags, g, vres)
        fetch(ok) == Call("get_nodes_by_ids", [node_ids |-> ids], ok, IF ok THEN ids \cap DOMAIN g ELSE {})
    IN
    IF TruthyStr(semantic_query) /\ fault = "query_embeddings"
    THEN [raised |-> FALSE, output |-> <<>>, calls |-> c1]
    ELSE IF TruthyList(graph_tags) /\ fault = "search_nodes_by_tag"
    THEN [raised |-> FALSE, output |-> <<>>, calls |-> Append(c1, Call("search_nodes_by_tag", [tag |-> graph_tags[1]], FALSE, {}))]
    ELSE IF ids = {}
    THEN [raised |-> FALSE, output |-> <<>>, calls |-> c1 \o tcalls]
    ELSE IF fault = "get_nodes_by_ids"
    THEN [raised |-> FALSE, output |-> <<>>, calls |-> Append(c1 \o tcalls, fetch(FALSE))]
    ELSE [raised |-> FALSE, output |-> final_nodes, calls |-> Append(c1 \o tcalls, fetch(TRUE))]

\* HybridRetrieverAgent.run; final_nodes is the list the batch fetch picked
HybridRetriever_run(semantic_query, graph_tags, g, fault, vres, final_nodes) ==
    LET vcall(ok, ids) == Call("query_embeddings", [query_text |-> semantic_query, n_results |-> RetrieverTopK], ok, ids)
        c1 == IF TruthyStr(semantic_query) THEN <<vcall(fault # "query_embeddings", IF fault = "query_embeddings" THEN {} ELSE vres)>> ELSE <<>>
        tcalls == IF TruthyList(graph_tags)
                  THEN [i \in 1..Len(graph_tags) |-> Call("search_nodes_by_tag", [tag |-> graph_tags[i]], TRUE, search_nodes_by_tag(g, graph_tags[i]))]
                  ELSE <<>>
        ids == retrieved_ids(semantic_query, graph_tags, g, vres)
        fetch(ok) == Call("get_nodes_by_ids", [node_ids |-> ids], ok, IF ok THEN ids \cap DOMAIN g ELSE {})
    IN
    IF TruthyStr(semantic_query) /\ fault = "query_embeddings"
    THEN [raised |-> TRUE, output |-> <<>>, calls |-> c1]
    ELSE IF TruthyList(graph_tags) /\ fault = "search_nodes_by_tag"
    THEN [raised |-> TRUE, output |-> <<>>, calls |-> Append(c1, Call("search_nodes_by_tag", [tag |-> graph_tags[1]], FALSE, {}))]
    ELSE IF ids = {}
    THEN [raised |-> FALSE, output |-> <<>>, calls |-> c1 \o tcalls]
    ELSE IF fault = "get_nodes_by_ids"
    THEN [raised |-> TRUE, output |-> <<>>, calls |-> Append(c1 \o tcalls, fetch(FALSE))]
    ELSE [raised |-> FALSE, output |-> final_nodes, calls |-> Append(c1 \o tcalls, fetch(TRUE))]

\* a Synthesizer.run whose except block logs and returns a fallback answer
Synthesizer_run_fallback(question, context_nodes, l, llm) ==
    LET context == [i \in 1..Len(context_nodes) |-> [node_id |-> context_nodes[i].node_id, content |-> IF context_nodes[i].content_summary # "" THEN context_nodes[i].content_summary ELSE context_nodes[i].content_raw]]
        prompt == [user_question |-> question, context |-> context]
        gen == <<Call("generate_content", prompt, llm.kind # "raise", {})>>
    IN
    IF llm.kind = "raise"
    THEN [raised |-> FALSE, output |-> NoInformation, log |-> log_api_call(l, "Synthesizer", prompt, "error"), calls |-> gen]
    ELSE [raised |-> FALSE, output |-> llm.data, log |-> log_api_call(l, "Synthesizer", prompt, "success"), calls |-> gen]

\* SynthesizerAgent.run
Synthesizer_run(question, context_nodes, l, llm) ==
    LET context == [i \in 1..Len(context_nodes) |-> [node_id |-> context_nodes[i].node_id, content |-> IF context_nodes[i].content_summary # "" THEN context_nodes[i].content_summary ELSE context_nodes[i].content_raw]]
        prompt == [user_question |-> question, context |-> context]
        gen == <<Call("generate_content", prompt, llm.kind # "raise", {})>>
    IN
    IF llm.kind = "raise"
    THEN [raised |-> TRUE, output |-> "", log |-> log_api_call(l, "Synthesizer", prompt, "error"), calls |-> gen]
    ELSE [raised |-> FALSE, output |-> llm.data, log |-> log_api_call(l, "Synthesizer", prompt, "success"), calls |-> gen]

(***************************************************************************)
(* The handlers of app.py, one action per step.                            *)
(***************************************************************************)
Idle == pc \in {"START", "DONE", "FAILED"}

InitApp ==
    /\ page = "Add Knowledge"
    /\ pc = "START"
    /\ ops = 0
    /\ tags_config = BiologyTags
    /\ tags_file = BiologyTags
    /\ nodes = <<>>
    /\ rels = <<>>
    /\ vectors = {}
    /\ log = <<>>
    /\ next_id = 1
    /\ new_text = ""
    /\ extractor_output = NoOutput
    /\ new_node_id = NoId
    /\ linker_output = <<>>
    /\ analyzer_output = NoOutput
    /\ retrieved_nodes = <<>>
    /\ user_question = ""
    /\ response = ""
    /\ calls = <<>>
    /\ llm_response = NoResponse

\* a handler starts: what the last one left in its local variables is gone
StartHandler(p, stage) ==
    /\ Idle
    /\ ops < MaxOps
    /\ ops' = ops + 1
    /\ page' = p
    /\ pc' = stage
    /\ extractor_output' = NoOutput
    /\ linker_output' = <<>>
    /\ analyzer_output' = NoOutput
    /\ retrieved_nodes' = <<>>
    /\ response' = ""
    /\ llm_response' = NoResponse

\* update_tags_file: tags.yaml holds the hierarchy that was dumped
update_tags_file(new_tags_config) == new_tags_config

\* Add Knowledge: the form is submitted with a text
Submit ==
    /\ \E text \in Texts : new_text' = text
    /\ StartHandler("Add Knowledge", "extracting")
    /\ user_question' = ""
    /\ new_node_id' = NoId
    /\ calls' = <<>>
    /\ UNCHANGED <<tags_config, tags_file, nodes, rels, vectors, log, next_id>>
    /\ UNCHANGED mergeVars

\* Add Knowledge, step 1: extractor.run and the update of the tag hierarchy
ExtractorStep ==
    /\ pc = "extracting"
    /\ \E llm \in ExtractorResponses :
          LET r == Extractor_run(new_text, tags_config, log, llm) IN
          /\ tags_config' = r.tags
          /\ log' = r.log
          /\ calls' = calls \o r.calls
          /\ llm_response' = llm
          /\ IF r.raised
             THEN /\ pc' = "FAILED"
                  /\ UNCHANGED <<tags_file, extractor_output>>
             ELSE /\ pc' = "linking"
                  /\ extractor_output' = r.output
                  /\ tags_file' = IF r.ret = "current_tags" THEN update_tags_file(r.tags) ELSE tags_file
    /\ UNCHANGED <<page, ops, nodes, rels, vectors, next_id, new_text, new_node_id, linker_output, analyzer_output, retrieved_nodes, user_question, response>>
    /\ UNCHANGED mergeVars

\* a generator that hands out the same id every time
uuid4_repeats(n) == 1

\* str(uuid.uuid4()): the n-th id generated, unlike the ones before it
uuid4(n) == n

\* Add Knowledge, step 2: a fresh uuid and linker.run
LinkerStep ==
    /\ pc = "linking"
    /\ new_node_id' = uuid4(next_id)
    /\ next_id' = next_id + 1
    /\ IF "content_summary" \notin DOMAIN extractor_output
       THEN /\ pc' = "FAILED"
            /\ UNCHANGED <<linker_output, log, calls, llm_response>>
       ELSE \E fault \in {"none", "query_embeddings"}, cands \in query_embeddings(vectors, extractor_output.content_summary, LinkerTopK), llm \in LinkerResponses(1..next_id) :
               LET r == KnowledgeLinker_run(uuid4(next_id), extractor_output.content_summary, log, fault, cands, llm) IN
               /\ log' = r.log
               /\ calls' = calls \o r.calls
               /\ llm_response' = IF Len(r.calls) = 2 THEN llm ELSE llm_response
               /\ IF r.raised
                  THEN pc' = "FAILED" /\ UNCHANGED linker_output
                  ELSE pc' = "writing" /\ linker_output' = r.output
    /\ UNCHANGED <<page, ops, tags_config, tags_file, nodes, rels, vectors, new_text, extractor_output, analyzer_output, retrieved_nodes, user_question, response>>
    /\ UNCHANGED mergeVars

\* Add Knowledge, step 3: writer.run
WriterStep ==
    /\ pc = "writing"
    /\ \E fault \in WriterFaults :
          LET r == GraphWriter_run(new_node_id, extractor_output, linker_output, new_text, nodes, vectors, rels, log, fault) IN
          /\ nodes' = r.nodes
          /\ vectors' = r.vectors
          /\ rels' = r.rels
          /\ log' = r.log
          /\ calls' = calls \o r.calls
    /\ pc' = "DONE"
    /\ UNCHANGED <<page, ops, tags_config, tags_file, next_id, new_text, extractor_output, new_node_id, linker_output, analyzer_output, retrieved_nodes, user_question, response, llm_response>>
    /\ UNCHANGED mergeVars

\* Query Graph: a question is asked
Ask ==
    /\ \E q \in Questions : user_question' = q
    /\ StartHandler("Query Graph", "analyzing")
    /\ new_text' = ""
    /\ new_node_id' = NoId
    /\ calls' = <<>>
    /\ UNCHANGED <<tags_config, tags_file, nodes, rels, vectors, log, next_id>>
    /\ UNCHANGED mergeVars

\* Query Graph, step 1: query_analyzer.run
AnalyzerStep ==
    /\ pc = "analyzing"
    /\ \E llm \in AnalyzerResponses :
          LET r == QueryAnalyzer_run(user_question, log, llm) IN
          /\ log' = r.log
          /\ calls' = calls \o r.calls
          /\ analyzer_output' = r.output
          /\ llm_response' = llm
          /\ IF r.raised
             THEN pc' = "FAILED" /\ response' = ErrorMessage
             ELSE pc' = "retrieving" /\ UNCHANGED response
    /\ UNCHANGED <<page, ops, tags_config, tags_file, nodes, rels, vectors, next_id, new_text, extractor_output, new_node_id, linker_output, retrieved_nodes, user_question>>
    /\ UNCHANGED mergeVars

\* a test `retrieved_nodes is None`, which no list passes
not_retrieved_nodes_is_none(retrieved) == retrieved = PyNoneList

\* app.py: `if not retrieved_nodes`
not_retrieved_nodes(retrieved) == retrieved = <<>>

\* Query Graph, step 2: retriever.run and the answer for an empty result
RetrieverStep ==
    /\ pc = "retrieving"
    /\ IF {"semantic_query", "graph_tags"} \subseteq DOMAIN analyzer_output
       THEN \E fault \in RetrieverFaults, vres \in query_embeddings(vectors, IF TruthyStr(analyzer_output.semantic_query) THEN analyzer_output.semantic_query ELSE "", RetrieverTopK) :
               \E final_nodes \in get_nodes_by_ids(nodes, retrieved_ids(analyzer_output.semantic_query, analyzer_output.graph_tags, nodes, vres)) :
                  LET r == HybridRetriever_run(analyzer_output.semantic_query, analyzer_output.graph_tags, nodes, fault, vres, final_nodes) IN
                  /\ calls' = calls \o r.calls
                  /\ retrieved_nodes' = r.output
                  /\ IF r.raised THEN pc' = "FAILED" /\ response' = ErrorMessage
                     ELSE IF not_retrieved_nodes(r.output) THEN pc' = "DONE" /\ response' = NoInformation
                     ELSE pc' = "synthesizing" /\ UNCHANGED response
       ELSE /\ pc' = "FAILED"
            /\ response' = ErrorMessage
            /\ UNCHANGED <<calls, retrieved_nodes>>
    /\ UNCHANGED <<page, ops, tags_config, tags_file, nodes, rels, vectors, log, next_id, new_text, extractor_output, new_node_id, linker_output, analyzer_output, user_question, llm_response>>
    /\ UNCHANGED mergeVars

\* Query Graph, step 3: synthesizer.run
SynthesizerStep ==
    /\ pc = "synthesizing"
    /\ \E llm \in SynthesizerResponses :
          LET r == Synthesizer_run(user_question, retrieved_nodes, log, llm) IN
          /\ log' = r.log
          /\ calls' = calls \o r.calls
          /\ llm_response' = llm
          /\ IF r.raised
             THEN pc' = "FAILED" /\ response' = ErrorMessage
             ELSE pc' = "DONE" /\ response' = r.output
    /\ UNCHANGED <<page, ops, tags_config, tags_file, nodes, rels, vectors, next_id, new_text, extractor_output, new_node_id, linker_output, analyzer_output, retrieved_nodes, user_question>>
    /\ UNCHANGED mergeVars

\* Manage Knowledge: "Delete this Node" on a node the search found
DeleteNode ==
    /\ \E node_id \in DOMAIN nodes, fault \in {"none", "delete_node", "delete_embedding"} :
          LET arg == [node_id |-> node_id] IN
          /\ StartHandler("Manage Knowledge", IF fault = "none" THEN "DONE" ELSE "FAILED")
          /\ new_node_id' = node_id
          /\ nodes' = IF fault = "delete_node" THEN nodes ELSE delete_node(nodes, node_id)
          /\ rels' = IF fault = "delete_node" THEN rels ELSE detach(rels, node_id)
          /\ vectors' = IF fault = "none" THEN delete_embedding(vectors, node_id) ELSE vectors
          /\ log' = IF fault = "none" THEN log_manual_action(log, "delete_node", arg) ELSE log
          /\ calls' = IF fault = "delete_node" THEN <<Call("delete_node", arg, FALSE, {})>>
                      ELSE <<Call("delete_node", arg, TRUE, {}), Call("delete_embedding", arg, fault = "none", {})>>
    /\ new_text' = ""
    /\ user_question' = ""
    /\ UNCHANGED <<tags_config, tags_file, next_id>>
    /\ UNCHANGED mergeVars

(***************************************************************************)
(* The tag merge on its own: _update_tags_if_needed applied to a           *)
(* hierarchy object, with a new tag_path or with the last one again.       *)
(***************************************************************************)
InitMerge ==
    /\ m_tags \in MergeHierarchies
    /\ m_prev = m_tags
    /\ m_path = <<>>
    /\ m_ret = "None"
    /\ m_ret_prev = "None"
    /\ m_n = 0
    /\ m_rep = FALSE

\* a call with tag_path p; current_tags is mutated in place
MergeCall(p) ==
    LET r == update_tags_if_needed(p, m_tags) IN
    /\ m_n < MaxMerges
    /\ m_prev' = m_tags
    /\ m_tags' = r.tags
    /\ m_ret' = r.ret
    /\ m_ret_prev' = m_ret
    /\ m_path' = p
    /\ m_n' = m_n + 1

\* a call with a tag_path other than the last one
MergeNew ==
    /\ \E p \in MergePaths \ {m_path} : MergeCall(p)
    /\ m_rep' = FALSE
    /\ UNCHANGED appVars

\* the call repeated with the same tag_path on the hierarchy the last call left
MergeAgain ==
    /\ m_n >= 1
    /\ MergeCall(m_path)
    /\ m_rep' = TRUE
    /\ UNCHANGED appVars

NextMerge == MergeNew \/ MergeAgain

\* while the application runs, the merge is not exercised on its own
MergeIdle ==
    /\ m_tags = EmptyTags
    /\ m_prev = EmptyTags
    /\ m_path = <<>>
    /\ m_ret = "None"
    /\ m_ret_prev = "None"
    /\ m_n = 0
    /\ m_rep = FALSE

Init == InitApp /\ MergeIdle

Next == Submit \/ ExtractorStep \/ LinkerStep \/ WriterStep \/ Ask \/ AnalyzerStep \/ RetrieverStep \/ SynthesizerStep \/ DeleteNode

\* the application: ingestions, queries and deletions, one handler at a time
Spec == Init /\ [][Next]_vars

\* the tag merge applied to the hierarchies of MergeHierarchies
InitTagMerge == InitApp /\ InitMerge

SpecMerge == InitTagMerge /\ [][NextMerge]_vars

(***************************************************************************)
(* The delete action run for an id whose node is gone: the three calls of  *)
(* the handler once more, none of them raising.                            *)
(***************************************************************************)
DeleteAgain ==
    /\ \E node_id \in (1..(next_id - 1)) \ DOMAIN nodes :
          LET arg == [node_id |-> node_id] IN
          /\ StartHandler("Manage Knowledge", "DONE")
          /\ new_node_id' = node_id
          /\ nodes' = delete_node(nodes, node_id)
          /\ rels' = detach(rels, node_id)
          /\ vectors' = delete_embedding(vectors, node_id)
          /\ log' = log_manual_action(log, "delete_node", arg)
          /\ calls' = <<Call("delete_node", arg, TRUE, {}), Call("delete_embedding", arg, TRUE, {})>>
    /\ new_text' = ""
    /\ user_question' = ""
    /\ UNCHANGED <<tags_config, tags_file, next_id>>
    /\ UNCHANGED mergeVars

NextDelete == Next \/ DeleteAgain

\* the application, with delete actions also for ids whose node is gone
SpecDelete == Init /\ [][NextDelete]_vars

(***************************************************************************)
(* The steps of the handlers when the INSERT of log_db.py raises.  Neither *)
(* log_api_call nor log_manual_action catches it: an audit write in a try  *)
(* block takes the run to its except block, whose own audit write raises   *)
(* again, and that exception leaves the run and ends the handler.          *)
(***************************************************************************)
\* the run with result r, started with log l, made an audit write
log_written(r, l) == r.log # l

\* extractor.run: the write of the "success" entry, or of the "error"
\* entry, raises; the tag merge is not reached
ExtractorStepLogDown ==
    /\ pc = "extracting"
    /\ \E llm \in ExtractorResponses :
          LET r == Extractor_run(new_text, tags_config, log, llm) IN
          /\ log_written(r, log)
          /\ calls' = calls \o r.calls
          /\ llm_response' = llm
    /\ pc' = "FAILED"
    /\ UNCHANGED <<page, ops, tags_config, tags_file, nodes, rels, vectors, log, next_id, new_text, extractor_output, new_node_id, linker_output, analyzer_output, retrieved_nodes, user_question, response>>
    /\ UNCHANGED mergeVars

\* linker.run: the model was asked, and the audit write raises
LinkerStepLogDown ==
    /\ pc = "linking"
    /\ "content_summary" \in DOMAIN extractor_output
    /\ new_node_id' = uuid4(next_id)
    /\ next_id' = next_id + 1
    /\ \E cands \in query_embeddings(vectors, extractor_output.content_summary, LinkerTopK), llm \in LinkerResponses(1..next_id) :
          LET r == KnowledgeLinker_run(uuid4(next_id), extractor_output.content_summary, log, "none", cands, llm) IN
          /\ log_written(r, log)
          /\ calls' = calls \o r.calls
          /\ llm_response' = llm
    /\ pc' = "FAILED"
    /\ UNCHANGED <<page, ops, tags_config, tags_file, nodes, rels, vectors, log, new_text, extractor_output, linker_output, analyzer_output, retrieved_nodes, user_question, response>>
    /\ UNCHANGED mergeVars

\* writer.run: a persistence step raised, and the write of the
\* write_failure entry in the except block raises
WriterStepLogDown ==
    /\ pc = "writing"
    /\ \E fault \in WriterFaults :
          LET r == GraphWriter_run(new_node_id, extractor_output, linker_output, new_text, nodes, vectors, rels, log, fault) IN
          /\ log_written(r, log)
          /\ nodes' = r.nodes
          /\ vectors' = r.vectors
          /\ rels' = r.rels
          /\ calls' = calls \o r.calls
    /\ pc' = "FAILED"
    /\ UNCHANGED <<page, ops, tags_config, tags_file, log, next_id, new_text, extractor_output, new_node_id, linker_output, analyzer_output, retrieved_nodes, user_question, response, llm_response>>
    /\ UNCHANGED mergeVars

\* query_analyzer.run: the audit write raises
AnalyzerStepLogDown ==
    /\ pc = "analyzing"
    /\ \E llm \in AnalyzerResponses :
          LET r == QueryAnalyzer_run(user_question, log, llm) IN
          /\ log_written(r, log)
          /\ calls' = calls \o r.calls
          /\ llm_response' = llm
    /\ pc' = "FAILED"
    /\ response' = ErrorMessage
    /\ UNCHANGED <<page, ops, tags_config, tags_file, nodes, rels, vectors, log, next_id, new_text, extractor_output, new_node_id, linker_output, analyzer_output, retrieved_nodes, user_question>>
    /\ UNCHANGED mergeVars

\* synthesizer.run: the audit write raises
SynthesizerStepLogDown ==
    /\ pc = "synthesizing"
    /\ \E llm \in SynthesizerResponses :
          LET r == Synthesizer_run(user_question, retrieved_nodes, log, llm) IN
          /\ log_written(r, log)
          /\ calls' = calls \o r.calls
          /\ llm_response' = llm
    /\ pc' = "FAILED"
    /\ response' = ErrorMessage
    /\ UNCHANGED <<page, ops, tags_config, tags_file, nodes, rels, vectors, log, next_id, new_text, extractor_output, new_node_id, linker_output, analyzer_output, retrieved_nodes, user_question>>
    /\ UNCHANGED mergeVars

NextLog ==
    \/ Next
    \/ ExtractorStepLogDown
    \/ LinkerStepLogDown
    \/ WriterStepLogDown
    \/ AnalyzerStepLogDown
    \/ SynthesizerStepLogDown

\* the application, with audit writes that may raise
SpecLog == Init /\ [][NextLog]_vars

(***************************************************************************)
(* Properties of the ingestion pipeline.                                   *)
(***************************************************************************)
Ingesting == page = "Add Knowledge"

\* the calls of the running handler made with operation op
CallsOf(op) == {i \in DOMAIN calls : calls[i].op = op}

WriterOps == {"create_knowledge_node", "add_embedding", "create_relationship"}

\* C1: once Extractor.run has returned (the handler is in its linking or
\* its writing step), no step takes the ingestion to FAILED.
C1_DoneOnceExtracted == [][(Ingesting /\ pc \in {"linking", "writing"}) => pc' # "FAILED"]_vars

\* the model call of Extractor.run raised
ExtractorModelRaised == Ingesting /\ Len(calls) >= 1 /\ calls[1].op = "generate_content" /\ ~calls[1].ok

\* C2: when the model call inside Extractor.run raises, the run raises (the
\* handler ends in FAILED with no extractor output and nothing else called)
\* and the last audit entry is an api_call entry of agent Extractor with
\* status "error" and the prompt that was sent, built from the text and the
\* hierarchy.
C2_ExtractorFailHard ==
    ExtractorModelRaised =>
        /\ pc = "FAILED"
        /\ extractor_output = NoOutput
        /\ Len(calls) = 1
        /\ Len(log) >= 1
        /\ log[Len(log)] = [agent_name |-> "Extractor", prompt |-> calls[1].arg, status |-> "error", action_type |-> "api_call"]
        /\ calls[1].arg = [user_text |-> new_text, tag_hierarchy |-> tags_config]

C2_Witness == ExtractorModelRaised /\ pc = "FAILED" /\ Len(log) = 1

\* C3: a step in which Extractor.run fails leaves the tag hierarchy, in
\* memory and on file, and both stores as they were, and calls neither the
\* linker nor the writer.
C3_NoPartialState ==
    [][(pc = "extracting" /\ pc' = "FAILED") =>
          /\ tags_config' = tags_config
          /\ tags_file' = tags_file
          /\ nodes' = nodes /\ vectors' = vectors /\ rels' = rels
          /\ \A i \in DOMAIN calls' : calls'[i].op = "generate_content"]_vars

\* a persistence step of GraphWriter.run raised
WriterStepRaised == Ingesting /\ \E i \in DOMAIN calls : calls[i].op \in WriterOps /\ ~calls[i].ok

\* C4: when a persistence step of GraphWriter.run raises, the run returns
\* (the handler ends in DONE), the last audit entry is a manual-action
\* entry "write_failure" naming the node id, and what the earlier steps
\* wrote is still there: the node, its embedding, the relationships.
C4_WriterAbsorbs ==
    WriterStepRaised =>
        /\ pc = "DONE"
        /\ Len(log) >= 1
        /\ log[Len(log)] = [agent_name |-> "Manual Action", prompt |-> [node_id |-> new_node_id], status |-> "success", action_type |-> "write_failure"]
        /\ \A i \in DOMAIN calls : calls[i].ok =>
              /\ calls[i].op = "create_knowledge_node" =>
                    /\ new_node_id \in DOMAIN nodes
                    /\ nodes[new_node_id] = [content_raw |-> new_text, content_summary |-> extractor_output.content_summary, node_type |-> extractor_output.node_type, tags |-> extractor_output.tag_path]
              /\ (calls[i].op = "add_embedding" /\ extractor_output.content_summary # "") => new_node_id \in vectors
              /\ (calls[i].op = "create_relationship" /\ calls[i].arg.to_node_id \in DOMAIN nodes) =>
                    \E j \in DOMAIN rels : rels[j].source = new_node_id /\ rels[j].target = calls[i].arg.to_node_id

C4_Witness ==
    /\ WriterStepRaised
    /\ \E i \in DOMAIN calls : calls[i].op = "add_embedding" /\ ~calls[i].ok
    /\ new_node_id \in DOMAIN nodes
    /\ new_node_id \notin vectors

(***************************************************************************)
(* Properties of the retriever and of the linker.                          *)
(***************************************************************************)
\* the ids a call of the running handler handed back
Found(op) == UNION {calls[i].ids : i \in CallsOf(op)}

\* C5: the list HybridRetriever.run returns holds no node id twice, and a
\* node the batch fetch found is in it exactly once.
C5_RetrieverDedup ==
    /\ \A i, j \in DOMAIN retrieved_nodes : retrieved_nodes[i].node_id = retrieved_nodes[j].node_id => i = j
    /\ \A n \in Found("get_nodes_by_ids") : Cardinality({i \in DOMAIN retrieved_nodes : retrieved_nodes[i].node_id = n}) = 1

\* a node found by the similarity search, by the tag search of two tags,
\* and returned
C5_Witness ==
    /\ page = "Query Graph"
    /\ Cardinality(CallsOf("search_nodes_by_tag")) = 2
    /\ \E n \in Found("query_embeddings") : \E k \in DOMAIN retrieved_nodes :
          /\ retrieved_nodes[k].node_id = n
          /\ \A i \in CallsOf("search_nodes_by_tag") : n \in calls[i].ids

\* retriever.run has been called with neither a query nor tags
RetrievedWithNothing ==
    /\ page = "Query Graph"
    /\ pc \in {"synthesizing", "DONE", "FAILED"}
    /\ {"semantic_query", "graph_tags"} \subseteq DOMAIN analyzer_output
    /\ analyzer_output.semantic_query \in {"", PyNone}
    /\ analyzer_output.graph_tags \in {<<>>, PyNoneList}

\* C6: HybridRetriever.run with an empty or absent semantic_query and an
\* empty or absent graph_tags returns the empty list and calls neither the
\* similarity query nor the tag search nor the batch fetch.
C6_RetrieverShortCircuit ==
    RetrievedWithNothing =>
        /\ retrieved_nodes = <<>>
        /\ pc = "DONE"
        /\ CallsOf("query_embeddings") \cup CallsOf("search_nodes_by_tag") \cup CallsOf("get_nodes_by_ids") = {}

C6_Witness == RetrievedWithNothing /\ analyzer_output.semantic_query = "" /\ analyzer_output.graph_tags = <<>> /\ DOMAIN nodes # {}

\* the linker's similarity search returned no candidate
LinkerFoundNothing == Ingesting /\ \E i \in CallsOf("query_embeddings") : calls[i].ok /\ calls[i].ids = {}

\* C7: when the similarity search returns no candidate, KnowledgeLinker.run
\* returns the empty list, the model is not called (the extractor's call
\* stays the only one) and no audit entry of the linker is written for the
\* node.
C7_LinkerShortCircuit ==
    LinkerFoundNothing =>
        /\ pc \in {"writing", "DONE"}
        /\ linker_output = <<>>
        /\ Cardinality(CallsOf("generate_content")) = 1
        /\ \A i \in DOMAIN log : log[i].agent_name = "KnowledgeLinker" => log[i].prompt.new_node_id # new_node_id

C7_Witness == LinkerFoundNothing /\ pc = "writing" /\ extractor_output.content_summary # ""

Mergeable(h, p) ==
    /\ Len(p) >= 2
    /\ \A i \in 1..(Len(p) - 2) : SubSeq(p, 1, i) \in Containers(h) => IsDict(h, SubSeq(p, 1, i))
    /\ SubSeq(p, 1, Len(p) - 1) \in Containers(h) => IsList(h, SubSeq(p, 1, Len(p) - 1))

\* C9: the merge of a tag_path returns, leaves the whole path in the
\* hierarchy, and signals a change exactly when it added a segment.
C9_MergeCreatesPath ==
    (m_n >= 1 /\ Mergeable(m_prev, m_path)) =>
        /\ m_ret # "raise"
        /\ Traversable(m_tags, m_path)
        /\ m_ret = "current_tags" <=> m_tags # m_prev

\* tag_path runs from the root of h to a leaf: through mappings to an item
\* of a list
RootToLeaf(h, tag_path) == Traversable(h, tag_path) /\ IsList(h, SubSeq(tag_path, 1, Len(tag_path) - 1))

\* C10: the tags of every node of the graph store are a path from the root
\* of the in-memory hierarchy to a leaf.
C10_TagsRootToLeaf == \A n \in DOMAIN nodes : RootToLeaf(tags_config, nodes[n].tags)

(***************************************************************************)
(* Properties of the query pipeline.                                       *)
(***************************************************************************)
Querying == page = "Query Graph"

StoreOps == {"query_embeddings", "search_nodes_by_tag", "get_nodes_by_ids"}

\* retriever.run has been called and has returned
RetrieverReturned ==
    /\ Querying
    /\ pc \in {"synthesizing", "DONE", "FAILED"}
    /\ {"semantic_query", "graph_tags"} \subseteq DOMAIN analyzer_output
    /\ \A i \in DOMAIN calls : calls[i].op \in StoreOps => calls[i].ok

\* C11: when retriever.run returns no node, the handler ends in DONE with
\* the no-information message as the response, and the Synthesizer is not
\* invoked: the analyzer's model call stays the only one and no audit entry
\* of the Synthesizer is the last one.
C11_NoContextAnswer ==
    (RetrieverReturned /\ retrieved_nodes = <<>>) =>
        /\ pc = "DONE"
        /\ response = NoInformation
        /\ Cardinality(CallsOf("generate_content")) = 1
        /\ log[Len(log)].agent_name = "QueryAnalyzer"

\* nothing retrieved although the graph store holds nodes and a search ran
C11_Witness ==
    /\ RetrieverReturned /\ retrieved_nodes = <<>>
    /\ DOMAIN nodes # {}
    /\ CallsOf("search_nodes_by_tag") # {}

(***************************************************************************)
(* Properties of the agents' error handling.                               *)
(***************************************************************************)
\* the linker asked the model (the third call of the ingestion, after the
\* extractor's model call and the similarity search)
LinkerAsked == Ingesting /\ Len(calls) >= 3 /\ calls[3].op = "generate_content"

\* the audit entry of the linker's model call with the given status
LinkerEntry(status) == [agent_name |-> "KnowledgeLinker", prompt |-> calls[3].arg, status |-> status, action_type |-> "api_call"]

\* C12: when the model's answer to the linker does not parse, linker.run
\* writes an "error" audit entry with its prompt and returns the empty
\* list: the ingestion goes on to the Writer, which creates no relationship.
C12_LinkerParseDegrades ==
    (LinkerAsked /\ llm_response.kind = "malformed") =>
        /\ pc \in {"writing", "DONE"}
        /\ linker_output = <<>>
        /\ \E i \in DOMAIN log : log[i] = LinkerEntry("error")
        /\ \A i \in DOMAIN log : log[i] # LinkerEntry("success")
        /\ CallsOf("create_relationship") = {}
        /\ \A j \in DOMAIN rels : rels[j].source # new_node_id

C12_Witness == LinkerAsked /\ llm_response.kind = "malformed" /\ pc = "DONE" /\ new_node_id \in DOMAIN nodes

\* C13: a model call that raises, in whichever agent, is the last call of
\* the handler, which ends in FAILED (the exception reaches the caller), and
\* the last audit entry is the "error" entry with the prompt of that call.
C13_ModelErrorPropagates ==
    \A i \in DOMAIN calls : (calls[i].op = "generate_content" /\ ~calls[i].ok) =>
        /\ pc = "FAILED"
        /\ i = Len(calls)
        /\ Len(log) >= 1
        /\ log[Len(log)].status = "error"
        /\ log[Len(log)].prompt = calls[i].arg

(***************************************************************************)
(* Properties of what the Writer persists.                                 *)
(***************************************************************************)
\* a call op of the running handler on node n returned before its i-th call
DoneBefore(op, n, i) == \E k \in 1..(i - 1) : calls[k].op = op /\ calls[k].ok /\ calls[k].arg.node_id = n

\* C14: GraphWriter.run stores the embedding only after the create-node
\* call of the node returned, and creates a relationship of the node only
\* after both the create-node call and the embedding call returned; each of
\* these two is made once.
C14_WriterOrder ==
    Ingesting =>
        /\ Cardinality(CallsOf("create_knowledge_node")) <= 1
        /\ Cardinality(CallsOf("add_embedding")) <= 1
        /\ \A i \in CallsOf("add_embedding") : DoneBefore("create_knowledge_node", calls[i].arg.node_id, i)
        /\ \A i \in CallsOf("create_relationship") :
              /\ DoneBefore("create_knowledge_node", calls[i].arg.from_node_id, i)
              /\ DoneBefore("add_embedding", calls[i].arg.from_node_id, i)

\* a writer run that made all three kinds of call, with two relationships
C14_Witness ==
    /\ Ingesting /\ pc = "DONE"
    /\ Cardinality(CallsOf("create_relationship")) = 2
    /\ \A i \in DOMAIN calls : calls[i].ok

\* C15: between handlers, the ids that hold an embedding are the ids of the
\* nodes of the graph store: an embedding for every node, none for others.
C15_OneEmbeddingPerNode == Idle => vectors = DOMAIN nodes

\* C16: both ends of every stored relationship are nodes of the graph store.
C16_RelationshipEndsExist == \A j \in DOMAIN rels : rels[j].source \in DOMAIN nodes /\ rels[j].target \in DOMAIN nodes

\* the Writer asked for a relationship to a node that does not exist (the
\* model proposed the id of a deleted node), beside one that was created
C16_Witness ==
    /\ Ingesting /\ pc = "DONE"
    /\ rels # <<>>
    /\ \E i \in CallsOf("create_relationship") : calls[i].ok /\ calls[i].arg.to_node_id \notin DOMAIN nodes

\* C17: every relationship record linker.run returned names, as its
\* to_node_id, one of the candidates its similarity search returned, of
\* which there are at most LinkerTopK.
C17_LinksToCandidates ==
    (Ingesting /\ pc \in {"writing", "DONE"}) =>
        /\ Cardinality(Found("query_embeddings")) <= LinkerTopK
        /\ \A i \in DOMAIN linker_output : linker_output[i].to_node_id \in Found("query_embeddings")

\* the analyzer's model answered with text that is not JSON, or with JSON
\* that lacks semantic_query or graph_tags, and the handler has ended
AnalyzerParseFailed ==
    /\ Querying /\ pc \in {"DONE", "FAILED"}
    /\ \/ llm_response.kind = "malformed"
       \/ llm_response.kind = "json" /\ ~({"semantic_query", "graph_tags"} \subseteq DOMAIN llm_response.data)

\* C18: when the analyzer's model answer is not JSON or lacks a required
\* key, the handler ends in FAILED, the last audit entry is the "error"
\* entry of QueryAnalyzer with its prompt, and neither the Retriever's
\* stores nor the Synthesizer's model are called.
C18_AnalyzerFailHard ==
    AnalyzerParseFailed =>
        /\ pc = "FAILED"
        /\ response = ErrorMessage
        /\ Len(calls) = 1
        /\ log[Len(log)] = [agent_name |-> "QueryAnalyzer", prompt |-> calls[1].arg, status |-> "error", action_type |-> "api_call"]

\* the Synthesizer's model call (the second model call of a query) raised
SynthesizerModelRaised ==
    /\ Querying
    /\ Cardinality(CallsOf("generate_content")) = 2
    /\ ~calls[Len(calls)].ok

\* C19: when the model call in Synthesizer.run raises, the run raises: the
\* handler ends in FAILED with the error message as the response, no answer
\* of any kind was returned, and the last audit entry is the "error" entry
\* of the Synthesizer with its prompt, built from the question and from the
\* nodes retrieved.
C19_SynthesizerFailHard ==
    SynthesizerModelRaised =>
        /\ pc = "FAILED"
        /\ response = ErrorMessage
        /\ calls[Len(calls)].op = "generate_content"
        /\ calls[Len(calls)].arg.user_question = user_question
        /\ Len(calls[Len(calls)].arg.context) = Len(retrieved_nodes)
        /\ log[Len(log)] = [agent_name |-> "Synthesizer", prompt |-> calls[Len(calls)].arg, status |-> "error", action_type |-> "api_call"]

C19_Witness == SynthesizerModelRaised /\ pc = "FAILED" /\ Len(retrieved_nodes) = 2

\* the ways a run of the query handler ends
\* FAILED, analysis error: nothing was called after the analyzer's model
AnalysisError == pc = "FAILED" /\ Len(calls) = 1 /\ calls[1].op = "generate_content"

\* FAILED, retrieval error: a store call of the Retriever raised
RetrievalError == pc = "FAILED" /\ Len(calls) >= 2 /\ calls[Len(calls)].op \in StoreOps /\ ~calls[Len(calls)].ok

\* DONE, no-context answer
NoContextDone ==
    /\ pc = "DONE"
    /\ retrieved_nodes = <<>>
    /\ response = NoInformation
    /\ Cardinality(CallsOf("generate_content")) = 1
    /\ \A i \in DOMAIN calls : calls[i].ok

\* DONE, synthesized answer
SynthesizedDone ==
    /\ pc = "DONE"
    /\ retrieved_nodes # <<>>
    /\ Cardinality(CallsOf("generate_content")) = 2
    /\ \A i \in DOMAIN calls : calls[i].ok
    /\ response = llm_response.data

\* FAILED, synthesis error: the Synthesizer's model call raised
SynthesisError == pc = "FAILED" /\ Len(calls) >= 2 /\ calls[Len(calls)].op = "generate_content" /\ ~calls[Len(calls)].ok

\* the number of the outcomes in S that describe the state
Count(S) == Cardinality({i \in 1..Len(S) : S[i]})

\* the response of a failed run is the error message, which is not the
\* no-information message
FailureMessage == pc = "FAILED" => (response = ErrorMessage /\ response # NoInformation)

\* C20, as stated: a run of the query handler ends in exactly one of FAILED
\* (analysis error), DONE (no-context answer), DONE (synthesized answer),
\* FAILED (synthesis error), a failure with the error message as response.
C20_QueryOutcomes ==
    (Querying /\ Idle) =>
        /\ Count(<<AnalysisError, NoContextDone, SynthesizedDone, SynthesisError>>) = 1
        /\ FailureMessage

\* C20, amended: a run of the query handler ends in exactly one of those
\* four or in FAILED (retrieval error), a failure with the error message as
\* response.
C20_QueryOutcomesAmended ==
    (Querying /\ Idle) =>
        /\ Count(<<AnalysisError, RetrievalError, NoContextDone, SynthesizedDone, SynthesisError>>) = 1
        /\ FailureMessage

\* a run that ended in FAILED because the batch fetch raised
C20_Witness == Querying /\ RetrievalError /\ calls[Len(calls)].op = "get_nodes_by_ids" /\ response = ErrorMessage

(***************************************************************************)
(* The result of the hybrid retrieval.                                     *)
(***************************************************************************)
\* the tags the analyzer handed to the retriever
QueryTags == IF TruthyList(analyzer_output.graph_tags) THEN {analyzer_output.graph_tags[i] : i \in 1..Len(analyzer_output.graph_tags)} ELSE {}

\* the nodes of the graph store whose tag list holds one of the tags
TaggedNodes == {n \in DOMAIN nodes : \E i \in 1..Len(nodes[n].tags) : nodes[n].tags[i] \in QueryTags}

\* the ids the similarity search of the running handler returned
SimilarNodes == Found("query_embeddings")

\* C21: retriever.run returns the full records of exactly the nodes whose
\* id the similarity search returned (at most RetrieverTopK embeddings,
\* asked for only with a non-empty semantic_query) or whose tag list holds
\* a tag of graph_tags; with no such id it makes no batch fetch, otherwise
\* one.
C21_RetrieverUnion ==
    RetrieverReturned =>
        /\ (CallsOf("query_embeddings") # {}) <=> TruthyStr(analyzer_output.semantic_query)
        /\ SimilarNodes \subseteq vectors
        /\ Cardinality(SimilarNodes) = IF CallsOf("query_embeddings") = {} THEN 0 ELSE Min(RetrieverTopK, Cardinality(vectors))
        /\ {retrieved_nodes[i].node_id : i \in DOMAIN retrieved_nodes} = (SimilarNodes \cup TaggedNodes) \cap DOMAIN nodes
        /\ \A i \in DOMAIN retrieved_nodes : retrieved_nodes[i] = NodeRecord(nodes, retrieved_nodes[i].node_id)
        /\ Cardinality(CallsOf("get_nodes_by_ids")) = IF SimilarNodes \cup TaggedNodes = {} THEN 0 ELSE 1

\* two nodes returned, one the similarity search found and one that only
\* the tag search found
C21_Witness ==
    /\ RetrieverReturned
    /\ Len(retrieved_nodes) = 2
    /\ SimilarNodes # {}
    /\ TaggedNodes \ SimilarNodes # {}

(***************************************************************************)
(* Properties of node ids, of deletion and of relationships.               *)
(***************************************************************************)
\* the ids generated so far
Generated == 1..(next_id - 1)

\* C22: the id generated for an ingestion is none of the ids generated
\* before it, whether or not their nodes still exist, and names no node and
\* no embedding of the stores; and no step replaces the node an id names.
C22_FreshNodeIds ==
    [][/\ pc = "linking" => (new_node_id' \notin Generated /\ new_node_id' \notin DOMAIN nodes \cup vectors /\ new_node_id' \in 1..(next_id' - 1))
       /\ \A n \in DOMAIN nodes \cap DOMAIN nodes' : nodes'[n] = nodes[n]]_vars

\* an ingestion after the node of the first id was deleted has another id
C22_Witness == Ingesting /\ pc = "DONE" /\ new_node_id = 2 /\ DOMAIN nodes = {2} /\ ops = 3

\* the step is a delete action that completed, for the node new_node_id'
DeleteCompleted == page' = "Manage Knowledge" /\ ops' # ops /\ pc' = "DONE"

\* C23: a delete action that completes leaves no node, no relationship end
\* and no embedding with the id, keeps every other node and embedding as it
\* was, and keeps the relationships between other nodes, in their order.
C23_DeleteCascades ==
    [][DeleteCompleted =>
          /\ new_node_id' \notin DOMAIN nodes'
          /\ new_node_id' \notin vectors'
          /\ \A j \in DOMAIN rels' : rels'[j].source # new_node_id' /\ rels'[j].target # new_node_id'
          /\ DOMAIN nodes' = DOMAIN nodes \ {new_node_id'}
          /\ \A n \in DOMAIN nodes' : nodes'[n] = nodes[n]
          /\ vectors' = vectors \ {new_node_id'}
          /\ rels' = SelectSeq(rels, LAMBDA r : r.source # new_node_id' /\ r.target # new_node_id')]_vars

\* a node with a relationship from another node was deleted; the other
\* node and its relationship to itself are still there
C23_Witness ==
    /\ page = "Manage Knowledge" /\ pc = "DONE"
    /\ new_node_id = 1
    /\ DOMAIN nodes = {2}
    /\ Len(rels) = 1
    /\ Cardinality(CallsOf("delete_embedding")) = 1

\* C25: a step changes the relationships only in two ways: the Writer's
\* step adds relationships after the ones there are, each with the new node
\* as an end; a delete action removes the relationships of the deleted
\* node. A relationship once stored is never changed.
C25_RelationshipsOfNewNode ==
    [][\/ rels' = rels
       \/ /\ pc = "writing"
          /\ Len(rels') > Len(rels)
          /\ SubSeq(rels', 1, Len(rels)) = rels
          /\ \A j \in (Len(rels) + 1)..Len(rels') : rels'[j].source = new_node_id \/ rels'[j].target = new_node_id
       \/ /\ page' = "Manage Knowledge"
          /\ rels' = SelectSeq(rels, LAMBDA r : r.source # new_node_id' /\ r.target # new_node_id')]_vars

\* an ingestion created a relationship from the new node to another node
C25_Witness ==
    /\ Ingesting /\ pc = "DONE"
    /\ \E j \in DOMAIN rels : rels[j].source = new_node_id /\ rels[j].target # new_node_id

\* the step is a delete action for an id that names no node and no embedding
DeleteOfAbsent == page' = "Manage Knowledge" /\ ops' # ops /\ new_node_id' \notin DOMAIN nodes \cup vectors

NodePersisted ==
    /\ new_node_id \in DOMAIN nodes
    /\ nodes[new_node_id] = [content_raw |-> new_text, content_summary |-> extractor_output.content_summary, node_type |-> extractor_output.node_type, tags |-> extractor_output.tag_path]

\* C27: whenever the ingestion ends in DONE, the node of the run
\* is in the graph store with the raw text and the Extractor's summary,
\* type and tag path.
C27_DoneHasNode == (Ingesting /\ pc = "DONE") => NodePersisted

\* C28: whenever no ingestion is under way after one has finished, in DONE
\* or in FAILED, the tag hierarchy on file (tags.yaml) equals the hierarchy
\* in memory, the one the next extraction reads.
C28_TagsFileInSync == (Ingesting /\ Idle) => tags_file = tags_config

\* the step is a run of Extractor, QueryAnalyzer or Synthesizer
ModelAgentStep == pc \in {"extracting", "analyzing", "synthesizing"} /\ pc' # pc

\* C29: each run of Extractor, QueryAnalyzer or Synthesizer appends exactly
\* one audit entry, an api_call entry with status "error" when the run
\* raises (the handler ends in FAILED) and "success" when it returns.
C29_OneEntryPerRun ==
    [][ModelAgentStep =>
          /\ Len(log') = Len(log) + 1
          /\ log'[Len(log')].action_type = "api_call"
          /\ log'[Len(log')].status = IF pc' = "FAILED" THEN "error" ELSE "success"]_vars

\* the call of the running handler that raised was op
Raised(op) == \E i \in CallsOf(op) : ~calls[i].ok

\* the relationships that have the node of the running ingestion as an end
RelsOfNewNode == {j \in DOMAIN rels : rels[j].source = new_node_id \/ rels[j].target = new_node_id}

\* the write_failure entries of the audit log for the id of the running ingestion
WriteFailures ==
    {i \in DOMAIN log : log[i].action_type = "write_failure" /\ log[i].prompt = [node_id |-> new_node_id]}

\* the writer of the running ingestion has run and its try block was left
\* by an exception
WriterFailed == Ingesting /\ pc = "DONE" /\ (WriterStepRaised \/ "node_type" \notin DOMAIN extractor_output)

\* C30: in GraphWriter.run the step that raises is the last call made; a
\* failed node creation leaves no node, embedding or relationship for the
\* id, a failed embedding store leaves no embedding and no relationship for
\* it, a failed relationship creation leaves no more relationships than
\* the calls made before it; the log holds exactly one write_failure entry
\* for a failed run and none for a run that did not fail.
C30_FirstFailureEndsWrite ==
    /\ WriterStepRaised =>
          /\ pc = "DONE"
          /\ ~calls[Len(calls)].ok
          /\ \A i \in 1..(Len(calls) - 1) : calls[i].op \in WriterOps => calls[i].ok
          /\ Raised("create_knowledge_node") =>
                /\ new_node_id \notin DOMAIN nodes \cup vectors
                /\ RelsOfNewNode = {}
                /\ CallsOf("add_embedding") \cup CallsOf("create_relationship") = {}
          /\ Raised("add_embedding") =>
                /\ new_node_id \notin vectors
                /\ RelsOfNewNode = {}
                /\ CallsOf("create_relationship") = {}
          /\ Raised("create_relationship") =>
                /\ Cardinality(CallsOf("create_relationship")) <= Len(linker_output)
                /\ Cardinality(RelsOfNewNode) <= Cardinality(CallsOf("create_relationship")) - 1
    /\ (Ingesting /\ pc = "DONE") => Cardinality(WriteFailures) = IF WriterFailed THEN 1 ELSE 0

\* the first of two proposed relationships raised, after the node and its
\* embedding were stored
C30_Witness ==
    /\ WriterStepRaised /\ Raised("create_relationship")
    /\ Len(linker_output) = 2
    /\ Cardinality(CallsOf("create_relationship")) = 1
    /\ new_node_id \in vectors
    /\ Cardinality(WriteFailures) = 1

\* the step is a run of the agent of stage, started in this state
AgentStep(stage) == pc = stage /\ pc' # pc

\* the step is a run of KnowledgeLinker that asked the model
LinkerAskedInStep == AgentStep("linking") /\ Len(calls') = Len(calls) + 2

\* C24: every agent run ends as the run with a working audit log does on
\* the same inputs and the same model and store responses: the handler
\* fails in the step exactly when that run raises, and goes on otherwise.
C24_LogNoInfluence ==
    [][/\ AgentStep("extracting") => ((pc' = "FAILED") <=> Extractor_run(new_text, tags_config, log, llm_response').raised)
       /\ LinkerAskedInStep => ((pc' = "FAILED") <=> KnowledgeLinker_ask(new_node_id', extractor_output.content_summary, log, calls'[Len(calls') - 1].ids, llm_response').raised)
       /\ AgentStep("writing") => pc' = "DONE"
       /\ AgentStep("analyzing") => ((pc' = "FAILED") <=> QueryAnalyzer_run(user_question, log, llm_response').raised)
       /\ AgentStep("synthesizing") => ((pc' = "FAILED") <=> Synthesizer_run(user_question, retrieved_nodes, log, llm_response').raised)]_vars

====
